---- MODULE Spec2Model ----
(***************************************************************************)
(* Plant identification backend: the inference pipeline of                 *)
(* backend/models/plant_model.py (weight loading, class table, predict),   *)
(* the endpoints of backend/main.py, backend/main_fixed.py and             *)
(* backend/main_fixed_v2.py, the port-retry loop of main_fixed.py, and the *)
(* tensor-shape behaviour of the BryoFormer network of                     *)
(* backend/models/bryoFormer.py.                                           *)
(*                                                                         *)
(* The state machines of the module:                                       *)
(*   Spec / SpecLoad : startup_event, predict, health_check                *)
(*   SpecPredict     : sequences of predict calls after every load path    *)
(*   SpecReady       : main.py's identify_plant, requests interleaved      *)
(*   SpecRecognize   : main.py's identify_plant with a loaded checkpoint   *)
(*   SpecServe       : identify_plant of the three application modules     *)
(*   SpecLaunch      : the port-retry loop of main_fixed.py's __main__     *)
(*   SpecNet         : BryoFormer construction and forward pass, on shapes *)
(***************************************************************************)
EXTENDS Integers, Sequences, FiniteSets, TLC

VARIABLES
    \* ---- environment and configuration of the pipeline ----
    ckptFile,        \* the checkpoint file found at model_path
    classFile,       \* ../shared/plant_classes.json
    numClasses,      \* num_classes passed to PlantRecognitionModel
    \* ---- PlantRecognitionModel / service state ----
    started,         \* startup_event has run
    plant_model,     \* global plant_model: None or the constructed object
    initRaised,      \* an exception left PlantRecognitionModel.__init__
    params,          \* live parameter name -> "random" | "ckpt"
    training,        \* nn.Module.training of the network
    buffers,         \* BatchNorm running statistics: "loaded" | "updated"
    new_state_dict,  \* local new_state_dict of load_model
    loadTrace,       \* the load_state_dict calls made, in order
    loadOutcome,     \* which branch of load_model reported the outcome
    class_names,     \* class ids whose string key is in self.class_names
    lastCall,        \* arguments of the last predict call
    result,          \* value returned by the last predict call
    prev,            \* how the predict call before the last one relates to it
    health,          \* body returned by the last health_check call
    \* ---- the HTTP services (main.py, main_fixed.py, main_fixed_v2.py) ----
    service,         \* which application module is served
    clock,           \* datetime.now(), in whole seconds
    uploads,         \* the files of UPLOAD_DIR: path -> None or inode and data
    reqs,            \* the /api/identify requests and where each one stands
    \* ---- BryoFormer network (shape level) ----
    net,             \* the constructed network, or its construction error
    fwd,             \* the forward pass in progress
    \* ---- the __main__ block of main_fixed.py ----
    launch           \* the port-retry loop: position, port, attempts made

pipeVars == <<ckptFile, classFile, numClasses, started, plant_model,
              initRaised, params, training, buffers, new_state_dict,
              loadTrace, loadOutcome, class_names, lastCall, result, prev,
              health, service, clock, uploads, reqs>>
srvVars == <<service, clock, uploads, reqs>>
netVars == <<net, fwd>>
mainVars == <<launch>>
vars == <<ckptFile, classFile, numClasses, started, plant_model,
          initRaised, params, training, buffers, new_state_dict, loadTrace,
          loadOutcome, class_names, lastCall, result, prev, health,
          service, clock, uploads, reqs, net, fwd, launch>>

None == [none |-> TRUE]
NoNet == [built |-> "no"]
NoFwd == [pc |-> "idle"]

Min(a, b) == IF a <= b THEN a ELSE b

(***************************************************************************)
(* Bounds                                                                  *)
(***************************************************************************)
MaxClasses == 3        \* num_classes ranges over 1..MaxClasses
MaxTopK == 4           \* top_k ranges over 1..MaxTopK
MaxPrefixDepth == 2    \* wrapper prefixes stacked on a checkpoint key
MaxKeys == 2           \* parameter entries in a checkpoint state dict
MaxRequests == 2       \* /api/identify requests in flight or answered
MaxClock == 1          \* the clock runs over seconds 0..MaxClock

(***************************************************************************)
(* Checkpoint files                                                        *)
(***************************************************************************)
\* names of the live model's parameters (none starts with a wrapper prefix)
LiveParams == {"head", "norm"}
\* tensor names a checkpoint may carry: live ones and a foreign one
TensorNames == LiveParams \cup {"extra"}
WrapperPrefixes == {"module", "model"}
WrapperEntries == {"model_state_dict", "state_dict", "model"}

\* a parameter key is the sequence of its dot-separated segments:
\* 'module.model.head' is <<"module", "model", "head">>
PrefixSeqs(n) == UNION {[1..m -> WrapperPrefixes] : m \in 0..n}
CheckpointKeys == {p \o <<nm>> : p \in PrefixSeqs(MaxPrefixDepth), nm \in TensorNames}
\* the subsets of U with at most n elements
RECURSIVE SetsUpTo(_, _)
SetsUpTo(U, n) ==
    IF n = 0 THEN {{}}
    ELSE LET S == SetsUpTo(U, n - 1) IN S \cup {s \cup {k} : s \in S, k \in U}
KeySets == SetsUpTo(CheckpointKeys, MaxKeys)
\* the state dicts of the scenarios: full match, half match, prefixed keys,
\* no match, empty
ScenarioKeySets == {{<<"head">>, <<"norm">>}, {<<"head">>, <<"extra">>},
                    {<<"module", "head">>, <<"module", "norm">>},
                    {<<"extra">>}, {}}

NoFile == [path |-> "none", content |-> "none", entries |-> {},
           sdMapping |-> FALSE, keys |-> {}, badShape |-> {}]

\* every checkpoint condition: no path, file missing, unreadable file,
\* content that is not a mapping, selected state dict that is not a mapping,
\* a bare state dict with arbitrary keys and tensor shapes, and a scenario
\* state dict under every combination of wrapper entries
CheckpointFiles ==
    {NoFile, [NoFile EXCEPT !.path = "missing"],
     [NoFile EXCEPT !.path = "exists", !.content = "unreadable"],
     [NoFile EXCEPT !.path = "exists", !.content = "notmapping"]}
    \cup {[NoFile EXCEPT !.path = "exists", !.content = "mapping", !.entries = e] :
            e \in SUBSET WrapperEntries}
    \cup [path : {"exists"}, content : {"mapping"}, entries : {{}},
          sdMapping : {TRUE}, keys : KeySets, badShape : SUBSET LiveParams]
    \cup [path : {"exists"}, content : {"mapping"}, entries : SUBSET WrapperEntries,
          sdMapping : {TRUE}, keys : ScenarioKeySets, badShape : SUBSET LiveParams]

\* one checkpoint of each condition, and the scenario state dicts bare or
\* under 'state_dict', with right shapes or a wrong shape for 'head'
ScenarioCheckpoints ==
    {f \in CheckpointFiles :
        \/ f.content # "mapping"
        \/ ~f.sdMapping /\ f.entries = {"model"}
        \/ /\ f.sdMapping
           /\ f.entries \in {{}, {"state_dict"}}
           /\ f.keys \in ScenarioKeySets
           /\ f.badShape \in {{}, {"head"}}}

\* plant_classes.json: absent, unparsable, or a table with the given ids
ClassFiles ==
    {[exists |-> FALSE, valid |-> FALSE, ids |-> {}],
     [exists |-> TRUE, valid |-> FALSE, ids |-> {}]}
    \cup [exists : {TRUE}, valid : {TRUE}, ids : SUBSET (0..(MaxClasses - 1))]

(***************************************************************************)
(* load_model                                                              *)
(***************************************************************************)
\* lines 57-62: strip one leading 'module.' or else one leading 'model.'
StripPrefix(k) ==
    IF Len(k) >= 2 /\ k[1] = "module" THEN Tail(k)
    ELSE IF Len(k) >= 2 /\ k[1] = "model" THEN Tail(k)
    ELSE k

\* lines 54-63: the key set of new_state_dict
NormalizeKeys(S) == {StripPrefix(k) : k \in S}

\* lines 44-51: which entry of the checkpoint is used as the state dict
SelectEntry(entries) ==
    IF "model_state_dict" \in entries THEN "model_state_dict"
    ELSE IF "state_dict" \in entries THEN "state_dict"
    ELSE IF "model" \in entries THEN "model"
    ELSE "checkpoint"

\* nn.Module.load_state_dict: parameters present with a matching shape are
\* copied; a shape mismatch, and under strict a missing or unexpected key,
\* is collected and raised after the copying
LoadStateDict(p, keys, badShape, strict) ==
    LET present == {n \in LiveParams : <<n>> \in keys}
        missing == LiveParams \ present
        unexpected == {k \in keys : ~(Len(k) = 1 /\ k[1] \in LiveParams)}
    IN  [params |-> [n \in LiveParams |->
                        IF n \in present \ badShape THEN "ckpt" ELSE p[n]],
         raised |-> \/ present \cap badShape # {}
                    \/ strict /\ (missing # {} \/ unexpected # {})]

\* the strict flag of the first load_state_dict call (line 66)
FirstLoadStrict == FALSE

\* lines 36-67: the body of the outer try
TryLoad(p, f) ==
    IF f.content # "mapping" THEN
        \* torch.load or checkpoint.keys() raised: new_state_dict not bound
        [raised |-> TRUE, params |-> p, nsd |-> None, trace |-> <<>>]
    ELSE IF ~f.sdMapping THEN
        \* state_dict.items() raised after new_state_dict = {} was bound
        [raised |-> TRUE, params |-> p,
         nsd |-> [keys |-> {}, entry |-> SelectEntry(f.entries)], trace |-> <<>>]
    ELSE
        LET nsd == NormalizeKeys(f.keys)
            r == LoadStateDict(p, nsd, f.badShape, FirstLoadStrict)
        IN  [raised |-> r.raised, params |-> r.params,
             nsd |-> [keys |-> nsd, entry |-> SelectEntry(f.entries)],
             trace |-> <<[strict |-> FirstLoadStrict, raised |-> r.raised]>>]

\* variant of RetryLoad without the inner try: a failure of the retry leaves
\* load_model
RetryLoadUncaught(p, nsd, badShape) ==
    IF nsd = None THEN
        [propagates |-> TRUE, ok |-> FALSE, params |-> p, trace |-> <<>>]
    ELSE
        LET r == LoadStateDict(p, nsd.keys, badShape, FALSE)
        IN  [propagates |-> r.raised, ok |-> ~r.raised, params |-> r.params,
             trace |-> <<[strict |-> FALSE, raised |-> r.raised]>>]

\* lines 72-77: the retry inside the except handler, itself in a try
RetryLoad(p, nsd, badShape) ==
    IF nsd = None THEN
        \* NameError on the unbound new_state_dict, caught at line 75
        [propagates |-> FALSE, ok |-> FALSE, params |-> p, trace |-> <<>>]
    ELSE
        LET r == LoadStateDict(p, nsd.keys, badShape, FALSE)
        IN  [propagates |-> FALSE, ok |-> ~r.raised, params |-> r.params,
             trace |-> <<[strict |-> FALSE, raised |-> r.raised]>>]

\* variant of ModeAfterLoad for a load_model that returns the network as
\* nn.Module constructs it, in training mode
ModeAfterLoadTrain == TRUE

\* line 86: model.eval() sets nn.Module.training to False
ModeAfterLoad == FALSE

\* lines 21-87
load_model(f) ==
    LET fresh == [n \in LiveParams |-> "random"]
    IN  IF f.path = "exists" THEN
            LET t == TryLoad(fresh, f)
            IN  IF ~t.raised THEN
                    [raised |-> FALSE, params |-> t.params,
                     training |-> ModeAfterLoad,
                     nsd |-> t.nsd, trace |-> t.trace, outcome |-> "loaded"]
                ELSE
                    LET r == RetryLoad(t.params, t.nsd, f.badShape)
                    IN  [raised |-> r.propagates, params |-> r.params,
                         training |-> IF r.propagates THEN TRUE ELSE ModeAfterLoad,
                         nsd |-> t.nsd, trace |-> t.trace \o r.trace,
                         outcome |-> IF r.propagates THEN "raised"
                                     ELSE IF r.ok THEN "loaded" ELSE "fallback"]
        ELSE
            [raised |-> FALSE, params |-> fresh, training |-> ModeAfterLoad,
             nsd |-> None, trace |-> <<>>, outcome |-> "notfound"]

\* lines 89-109
DefaultClassIds == 0..4
load_class_names(cf) ==
    IF cf.exists /\ cf.valid THEN cf.ids ELSE DefaultClassIds

(***************************************************************************)
(* predict                                                                 *)
(***************************************************************************)
\* An image is identified with what the frozen network makes of it: the
\* class indices in descending softmax probability.  "bad" cannot be
\* opened or decoded.
Rankings(n) == {r \in [1..n -> 0..(n - 1)] : \A i, j \in 1..n : i # j => r[i] # r[j]}
Images(n) == {[valid |-> FALSE, ranking |-> <<>>]}
             \cup {[valid |-> TRUE, ranking |-> r] : r \in Rankings(n)}
TopKs == 1..MaxTopK

\* confidence of the i-th most probable of n classes, as a rank score
Confidence(n, i) == n + 1 - i

\* line 133: torch.topk raises when k exceeds the number of classes
TopKRaises(n, k) == k > n

\* variant of BuildResults that keeps a record for every selected index,
\* without the membership test of line 141
RECURSIVE BuildResultsUnchecked(_, _, _, _, _)
BuildResultsUnchecked(r, table, n, i, k) ==
    IF i > k THEN <<>>
    ELSE <<[class_id |-> r[i], confidence |-> Confidence(n, i)]>>
         \o BuildResultsUnchecked(r, table, n, i + 1, k)

\* lines 136-146: the records kept for positions i..k of the ranking
RECURSIVE BuildResults(_, _, _, _, _)
BuildResults(r, table, n, i, k) ==
    IF i > k THEN <<>>
    ELSE (IF r[i] \in table
          THEN <<[class_id |-> r[i], confidence |-> Confidence(n, i)]>>
          ELSE <<>>) \o BuildResults(r, table, n, i + 1, k)

\* variant of ForwardRankings with dropout drawn on every forward pass,
\* whatever the mode
ForwardRankingsDropout(img, n, tr, buf) == Rankings(n)

\* lines 127-131: the forward pass and the softmax.  The ranking of an image
\* is the one the network gives in the state load_model leaves it in:
\* evaluation mode, running statistics as loaded.  In any other state of
\* the network the model leaves the output open.
ForwardRankings(img, n, tr, buf) ==
    IF ~tr /\ buf = "loaded" THEN {img.ranking} ELSE Rankings(n)

\* variant of BuffersAfterForward with the running statistics tracked in
\* evaluation mode too
BuffersAfterForwardTracked(tr, buf) == "updated"

\* the BatchNorm2d layers of the network (bryoFormer.py lines 79, 98, 199,
\* 202) rewrite their running statistics on a forward pass in training mode
\* and only then
BuffersAfterForward(tr, buf) == IF tr THEN "updated" ELSE buf

\* bryoFormer.py line 299: the per-block stochastic-depth rates, in percent:
\* zero (the rate plant_model.py builds with) or positive
DropPathRates == {0, 10}

\* bryoFormer.py lines 151 and 165: the stochastic-depth gate of a block
\* built with rate drop_path, in mode tr
DropPathGate(drop_path, tr) ==
    IF drop_path > 0 /\ tr THEN "stochastic" ELSE "identity"

\* lines 122-160
predict(img, top_k, n, table) ==
    IF ~img.valid THEN
        [success |-> FALSE, error |-> "cannot identify image file", predictions |-> <<>>]
    ELSE IF TopKRaises(n, top_k) THEN
        [success |-> FALSE, error |-> "selected index k out of range", predictions |-> <<>>]
    ELSE
        LET results == BuildResults(img.ranking, table, n, 1, top_k)
        IN  [success |-> TRUE, predictions |-> results,
             top_prediction |-> IF results # <<>> THEN results[1] ELSE None]

(***************************************************************************)
(* Actions of the service                                                  *)
(***************************************************************************)
\* main.py lines 33-47 with PlantRecognitionModel.__init__ (lines 11-19)
startup_event ==
    /\ ~started
    /\ LET m == load_model(ckptFile)
       IN  /\ started' = TRUE
           /\ initRaised' = m.raised
           /\ plant_model' = IF m.raised THEN None ELSE [object |-> "PlantRecognitionModel"]
           /\ params' = m.params
           /\ training' = m.training
           /\ buffers' = "loaded"
           /\ new_state_dict' = m.nsd
           /\ loadTrace' = m.trace
           /\ loadOutcome' = m.outcome
           /\ class_names' = IF m.raised THEN {} ELSE load_class_names(classFile)
    /\ UNCHANGED <<ckptFile, classFile, numClasses, lastCall, result, prev,
                   health>>
    /\ UNCHANGED srvVars
    /\ UNCHANGED netVars
    /\ UNCHANGED mainVars

\* what one call of predict on image img with top_k = k does to the state
PredictCall(img, k) ==
    \E r \in (IF img.valid
             THEN ForwardRankings(img, numClasses, training, buffers)
             ELSE {<<>>}) :
        /\ lastCall' = [image |-> img, top_k |-> k, training |-> training]
        /\ result' = predict([valid |-> img.valid, ranking |-> r], k,
                             numClasses, class_names)
        /\ buffers' = IF img.valid THEN BuffersAfterForward(training, buffers)
                      ELSE buffers
        /\ prev' = IF lastCall = None THEN None
                   ELSE LET same == lastCall.image = img /\ lastCall.top_k = k
                        IN  [same |-> same, failed |-> ~result.success,
                             result |-> IF same THEN result ELSE None]

\* a call of plant_model.predict(image_path, top_k)
Predict ==
    /\ started
    /\ plant_model # None
    /\ \E img \in Images(numClasses), k \in TopKs : PredictCall(img, k)
    /\ UNCHANGED <<ckptFile, classFile, numClasses, started, plant_model,
                   initRaised, params, training, new_state_dict, loadTrace,
                   loadOutcome, class_names, health>>
    /\ UNCHANGED srvVars
    /\ UNCHANGED netVars
    /\ UNCHANGED mainVars

\* main.py lines 60-67
health_check ==
    /\ started
    /\ health' = [status |-> "healthy", model_loaded |-> plant_model # None]
    /\ UNCHANGED <<ckptFile, classFile, numClasses, started, plant_model,
                   initRaised, params, training, buffers, new_state_dict,
                   loadTrace, loadOutcome, class_names, lastCall, result,
                   prev>>
    /\ UNCHANGED srvVars
    /\ UNCHANGED netVars
    /\ UNCHANGED mainVars

(***************************************************************************)
(* The /api/identify handlers of main.py, main_fixed.py, main_fixed_v2.py  *)
(*                                                                         *)
(* A handler is a coroutine: it runs without interruption from one await   *)
(* to the next, and other requests' steps interleave at the awaits.  Each  *)
(* action below is the code between two awaits.                            *)
(***************************************************************************)
Services == {"main", "main_fixed", "main_fixed_v2"}
Requests == 1..MaxRequests
Exts == {".jpg", ".png"}
\* file_path, main.py lines 81-83: the second of the clock and the extension
Paths == (0..MaxClock) \X Exts

\* plant_model.py line 122: the default top_k, which the handlers rely on
DefaultTopK == 3

\* a file just opened with 'wb' holds no bytes
EmptyData == [valid |-> FALSE, ranking |-> <<>>]

\* what a client sends: a content type, a file name extension and the bytes,
\* which are an undecodable file or one of two photographs
UploadImages(n) ==
    {[valid |-> FALSE, ranking |-> <<>>],
     [valid |-> TRUE, ranking |-> [i \in 1..n |-> i - 1]],
     [valid |-> TRUE, ranking |-> [i \in 1..n |-> n - i]]}
UploadFiles(n) ==
    [isImage : {TRUE}, ext : Exts, image : UploadImages(n)]
    \cup {[isImage |-> FALSE, ext |-> ".jpg", image |-> EmptyData]}

\* requests are numbered in the order in which their handlers start
NextToArrive(r) == \A q \in Requests : q < r => reqs[q].pc # "new"

NewRequest == [pc |-> "new", upload |-> None, path |-> None, fd |-> None,
               sawNone |-> FALSE, predicted |-> FALSE, fellBack |-> FALSE,
               sleptAt |-> 0, removed |-> 0, read |-> None,
               response |-> None]

\* raise HTTPException(status_code, ...)
HTTPError(code) == [status |-> code]

\* variant of ModelMissing for an identify_plant without the check of
\* main.py line 73
ModelMissingUnchecked(pm) == FALSE

\* main.py line 73
ModelMissing(pm) == pm = None

\* plant_model.py lines 11-19: the attributes __init__ binds on the object
ModelAttributes == {"device", "num_classes", "model", "class_names", "transform"}
\* hasattr(pm, name) on a constructed PlantRecognitionModel
HasAttr(pm, name) == pm # None /\ name \in ModelAttributes
\* main_fixed_v2.py lines 69, 137, 149, 160: plant_model is not None and
\* hasattr(plant_model, 'model_loaded') and plant_model.model_loaded
V2ModelLoaded(pm) ==
    /\ pm # None
    /\ HasAttr(pm, "model_loaded")
    /\ pm.model_loaded

\* os.remove(path) on the upload directory d
Remove(d, path) == [d EXCEPT ![path] = None]
\* the number of files that os.remove(path) deletes: none when it raises
\* FileNotFoundError
Removes(d, path) == IF d[path] = None THEN 0 ELSE 1

\* datetime.now() moves on by a second
Tick ==
    /\ clock < MaxClock
    /\ clock' = clock + 1
    /\ UNCHANGED <<ckptFile, classFile, numClasses, started, plant_model,
                   initRaised, params, training, buffers, new_state_dict,
                   loadTrace, loadOutcome, class_names, lastCall, result,
                   prev, health, service, uploads, reqs>>
    /\ UNCHANGED netVars
    /\ UNCHANGED mainVars

\* main_fixed.py lines 34-71: the model is constructed only when the weight
\* file exists
lifespan ==
    /\ service = "main_fixed"
    /\ ~started
    /\ started' = TRUE
    /\ IF ckptFile.path = "exists"
       THEN LET m == load_model(ckptFile)
            IN  /\ initRaised' = m.raised
                /\ plant_model' = IF m.raised THEN None
                                  ELSE [object |-> "PlantRecognitionModel"]
                /\ params' = m.params
                /\ training' = m.training
                /\ buffers' = "loaded"
                /\ new_state_dict' = m.nsd
                /\ loadTrace' = m.trace
                /\ loadOutcome' = m.outcome
                /\ class_names' = IF m.raised THEN {}
                                  ELSE load_class_names(classFile)
       ELSE /\ plant_model' = None
            /\ UNCHANGED <<initRaised, params, training, buffers,
                           new_state_dict, loadTrace, loadOutcome, class_names>>
    /\ UNCHANGED <<ckptFile, classFile, numClasses, lastCall, result, prev,
                   health>>
    /\ UNCHANGED srvVars
    /\ UNCHANGED netVars
    /\ UNCHANGED mainVars

\* main.py lines 70-85: the checks, the temporary path, up to the await of
\* aiofiles.open
identify_plant_enter(r) ==
    /\ service = "main"
    /\ reqs[r].pc = "new"
    /\ NextToArrive(r)
    /\ \E up \in UploadFiles(numClasses) :
        LET q == [reqs[r] EXCEPT !.upload = up, !.sawNone = (plant_model = None)]
        IN  reqs' = [reqs EXCEPT ![r] =
                IF ModelMissing(plant_model)
                THEN [q EXCEPT !.pc = "done", !.response = HTTPError(503)]
                ELSE IF ~up.isImage
                THEN [q EXCEPT !.pc = "done", !.response = HTTPError(400)]
                ELSE [q EXCEPT !.pc = "opening", !.path = <<clock, up.ext>>]]
    /\ UNCHANGED <<ckptFile, classFile, numClasses, started, plant_model,
                   initRaised, params, training, buffers, new_state_dict,
                   loadTrace, loadOutcome, class_names, lastCall, result,
                   prev, health, service, clock, uploads>>
    /\ UNCHANGED netVars
    /\ UNCHANGED mainVars

\* main_fixed.py lines 119-131: the same without the model check
fixed_identify_plant_enter(r) ==
    /\ service = "main_fixed"
    /\ reqs[r].pc = "new"
    /\ NextToArrive(r)
    /\ \E up \in UploadFiles(numClasses) :
        LET q == [reqs[r] EXCEPT !.upload = up, !.sawNone = (plant_model = None)]
        IN  reqs' = [reqs EXCEPT ![r] =
                IF ~up.isImage
                THEN [q EXCEPT !.pc = "done", !.response = HTTPError(400)]
                ELSE [q EXCEPT !.pc = "opening", !.path = <<clock, up.ext>>]]
    /\ UNCHANGED <<ckptFile, classFile, numClasses, started, plant_model,
                   initRaised, params, training, buffers, new_state_dict,
                   loadTrace, loadOutcome, class_names, lastCall, result,
                   prev, health, service, clock, uploads>>
    /\ UNCHANGED netVars
    /\ UNCHANGED mainVars

\* main.py line 85, main_fixed.py line 131: aiofiles.open(file_path, 'wb')
\* creates the file or truncates the one that is there
save_open(r) ==
    /\ reqs[r].pc = "opening"
    /\ LET path == reqs[r].path
           inode == IF uploads[path] = None THEN r ELSE uploads[path].inode
       IN  /\ uploads' = [uploads EXCEPT ![path] = [inode |-> inode, data |-> EmptyData]]
           /\ reqs' = [reqs EXCEPT ![r].pc = "opened", ![r].fd = inode]
    /\ UNCHANGED <<ckptFile, classFile, numClasses, started, plant_model,
                   initRaised, params, training, buffers, new_state_dict,
                   loadTrace, loadOutcome, class_names, lastCall, result,
                   prev, health, service, clock>>
    /\ UNCHANGED netVars
    /\ UNCHANGED mainVars

\* main.py lines 86-87, main_fixed.py lines 132-133: the upload is written
\* through the open descriptor; a file removed in between stays removed
save_write(r) ==
    /\ reqs[r].pc = "opened"
    /\ LET path == reqs[r].path
       IN  uploads' = IF uploads[path] # None /\ uploads[path].inode = reqs[r].fd
                      THEN [uploads EXCEPT ![path].data = reqs[r].upload.image]
                      ELSE uploads
    /\ reqs' = [reqs EXCEPT ![r].pc = "written"]
    /\ UNCHANGED <<ckptFile, classFile, numClasses, started, plant_model,
                   initRaised, params, training, buffers, new_state_dict,
                   loadTrace, loadOutcome, class_names, lastCall, result,
                   prev, health, service, clock>>
    /\ UNCHANGED netVars
    /\ UNCHANGED mainVars

\* main.py lines 109-114: the body returned when nothing was recognised
FailureBody(res) ==
    [status |-> 200, success |-> FALSE,
     error |-> IF res.success THEN "unknown error" ELSE res.error]

\* variant of Recognised that looks at the success flag only
RecognisedSuccessOnly(res) == res.success

\* main.py line 97, main_fixed_v2.py line 184:
\* if result["success"] and result["predictions"]
Recognised(res) == res.success /\ res.predictions # <<>>

\* main.py lines 98-107, main_fixed_v2.py lines 185-197: the body returned
\* for a recognised plant; main_fixed_v2.py adds ai_mode
SuccessBody(svc, res) ==
    IF svc = "main_fixed_v2"
    THEN [status |-> 200, success |-> TRUE,
          top_prediction |-> res.top_prediction,
          all_predictions |-> res.predictions, ai_mode |-> TRUE]
    ELSE [status |-> 200, success |-> TRUE,
          top_prediction |-> res.top_prediction,
          all_predictions |-> res.predictions]

\* main.py lines 89-120, main_fixed_v2.py lines 176-209: predict is awaited
\* and has no await of its own, so prediction, removal and response are one
\* step
identify_plant_recognize(r) ==
    /\ service \in {"main", "main_fixed_v2"}
    /\ reqs[r].pc = "written"
    /\ LET path == reqs[r].path
           f == uploads[path]
       IN  IF plant_model = None
           THEN \* AttributeError on None, handled at line 116
                /\ uploads' = Remove(uploads, path)
                /\ reqs' = [reqs EXCEPT ![r].pc = "done",
                                        ![r].removed = @ + Removes(uploads, path),
                                        ![r].response = HTTPError(500)]
                /\ UNCHANGED <<lastCall, result, buffers, prev>>
           ELSE /\ PredictCall(IF f = None THEN EmptyData ELSE f.data, DefaultTopK)
                /\ uploads' = Remove(uploads, path)
                /\ reqs' = [reqs EXCEPT
                     ![r].pc = "done",
                     ![r].predicted = TRUE,
                     ![r].read = IF f = None THEN None ELSE f.data,
                     ![r].removed = @ + Removes(uploads, path),
                     ![r].response =
                        IF f = None
                        THEN \* os.remove raised FileNotFoundError
                             HTTPError(500)
                        ELSE IF Recognised(result')
                        THEN IF result'.top_prediction = None
                             THEN \* top_plant['name'] on None: TypeError,
                                  \* handled at line 116
                                  HTTPError(500)
                             ELSE SuccessBody(service, result')
                        ELSE FailureBody(result')]
    /\ UNCHANGED <<ckptFile, classFile, numClasses, started, plant_model,
                   initRaised, params, training, new_state_dict, loadTrace,
                   loadOutcome, class_names, health, service, clock>>
    /\ UNCHANGED netVars
    /\ UNCHANGED mainVars

\* main_fixed.py line 141 with plant_model.py line 122: predict is an async
\* def and the call is not awaited, so its value is a coroutine object and
\* no line of predict runs
FixedPredictValue == [coroutine |-> "PlantRecognitionModel.predict"]
\* result['top_prediction'] is defined on a dict only
Subscriptable(v) == v # [coroutine |-> "PlantRecognitionModel.predict"]

\* main_fixed.py lines 135-158: the attempt with the model, up to the await
\* of asyncio.sleep
fixed_identify_plant_recognize(r) ==
    /\ service = "main_fixed"
    /\ reqs[r].pc = "written"
    /\ LET path == reqs[r].path
       IN  IF plant_model # None
           THEN /\ uploads' = Remove(uploads, path)
                /\ reqs' = [reqs EXCEPT ![r] =
                     IF uploads[path] # None /\ Subscriptable(FixedPredictValue)
                     THEN [@ EXCEPT !.pc = "done",
                                    !.response = [status |-> 200, success |-> TRUE,
                                                  demo_mode |-> FALSE]]
                     ELSE \* FileNotFoundError or TypeError, handled at line 153
                          [@ EXCEPT !.pc = "sleeping", !.fellBack = TRUE,
                                    !.removed = @ + Removes(uploads, path),
                                    !.sleptAt = clock]]
           ELSE /\ uploads' = uploads
                /\ reqs' = [reqs EXCEPT ![r].pc = "sleeping", ![r].sleptAt = clock]
    /\ UNCHANGED <<ckptFile, classFile, numClasses, started, plant_model,
                   initRaised, params, training, buffers, new_state_dict,
                   loadTrace, loadOutcome, class_names, lastCall, result,
                   prev, health, service, clock>>
    /\ UNCHANGED netVars
    /\ UNCHANGED mainVars

\* main_fixed.py lines 158-203: after the sleep of one second, the demo
\* result, the removal of the temporary file and the response
fixed_identify_plant_demo(r) ==
    /\ service = "main_fixed"
    /\ reqs[r].pc = "sleeping"
    /\ clock > reqs[r].sleptAt
    /\ LET path == reqs[r].path
       IN  /\ uploads' = Remove(uploads, path)
           /\ reqs' = [reqs EXCEPT
                ![r].pc = "done",
                ![r].removed = @ + Removes(uploads, path),
                ![r].response =
                   IF uploads[path] = None
                   THEN \* os.remove raised FileNotFoundError, handled at 199
                        HTTPError(500)
                   ELSE [status |-> 200, success |-> TRUE, demo_mode |-> TRUE]]
    /\ UNCHANGED <<ckptFile, classFile, numClasses, started, plant_model,
                   initRaised, params, training, buffers, new_state_dict,
                   loadTrace, loadOutcome, class_names, lastCall, result,
                   prev, health, service, clock>>
    /\ UNCHANGED netVars
    /\ UNCHANGED mainVars

\* main_fixed_v2.py lines 51-84: the construction of main.py, then the
\* probe of the model_loaded attribute, which only chooses what is printed
v2_startup_event ==
    /\ service = "main_fixed_v2"
    /\ startup_event

\* main_fixed_v2.py lines 144-153
v2_health_check ==
    /\ service = "main_fixed_v2"
    /\ started
    /\ health' = [status |-> "healthy", model_loaded |-> V2ModelLoaded(plant_model)]
    /\ UNCHANGED <<ckptFile, classFile, numClasses, started, plant_model,
                   initRaised, params, training, buffers, new_state_dict,
                   loadTrace, loadOutcome, class_names, lastCall, result,
                   prev>>
    /\ UNCHANGED srvVars
    /\ UNCHANGED netVars
    /\ UNCHANGED mainVars

\* main_fixed_v2.py lines 156-172 and 87-93: without a model flagged as
\* loaded the request goes to demo_identify_plant, up to its sleep;
\* otherwise the checks and the temporary path as in main.py
v2_identify_plant_enter(r) ==
    /\ service = "main_fixed_v2"
    /\ reqs[r].pc = "new"
    /\ NextToArrive(r)
    /\ \E up \in UploadFiles(numClasses) :
        LET q == [reqs[r] EXCEPT !.upload = up, !.sawNone = (plant_model = None)]
        IN  reqs' = [reqs EXCEPT ![r] =
                IF ~up.isImage
                THEN [q EXCEPT !.pc = "done", !.response = HTTPError(400)]
                ELSE IF ~V2ModelLoaded(plant_model)
                THEN [q EXCEPT !.pc = "sleeping", !.sleptAt = clock]
                ELSE [q EXCEPT !.pc = "opening", !.path = <<clock, up.ext>>]]
    /\ UNCHANGED <<ckptFile, classFile, numClasses, started, plant_model,
                   initRaised, params, training, buffers, new_state_dict,
                   loadTrace, loadOutcome, class_names, lastCall, result,
                   prev, health, service, clock, uploads>>
    /\ UNCHANGED netVars
    /\ UNCHANGED mainVars

\* main_fixed_v2.py lines 93-129: demo_identify_plant after its sleep
v2_demo_identify_plant(r) ==
    /\ service = "main_fixed_v2"
    /\ reqs[r].pc = "sleeping"
    /\ clock > reqs[r].sleptAt
    /\ reqs' = [reqs EXCEPT
         ![r].pc = "done",
         ![r].response = [status |-> 200, success |-> TRUE, demo_mode |-> TRUE]]
    /\ UNCHANGED <<ckptFile, classFile, numClasses, started, plant_model,
                   initRaised, params, training, buffers, new_state_dict,
                   loadTrace, loadOutcome, class_names, lastCall, result,
                   prev, health, service, clock, uploads>>
    /\ UNCHANGED netVars
    /\ UNCHANGED mainVars

(***************************************************************************)
(* BryoFormer on tensor shapes (bryoFormer.py)                             *)
(***************************************************************************)
DefaultImgSize == 224     \* plant_model.py line 24
MaxImgSize == 48          \* img_size ranges over 1..MaxImgSize and the default
MaxDepth == 12            \* depth ranges over 1..MaxDepth
MaxBatch == 2             \* batch size of a forward pass

ImgSizes == (1..MaxImgSize) \cup {DefaultImgSize}
PatchSizes == {8, 16, 32}
EmbedDims == {8, 12, 384}
Variants == {"BryoFormer", "BryoFormerV2", "BryoFormerV3", "BryoFormerV4"}

\* a raised exception in place of a tensor
Err == <<0 - 1>>

Max(a, b) == IF a >= b THEN a ELSE b

RECURSIVE Numel(_)
Numel(s) == IF s = <<>> THEN 1 ELSE s[1] * Numel(Tail(s))

\* int(math.sqrt(N))
Isqrt(n) == CHOOSE a \in 0..n : a * a <= n /\ (a + 1) * (a + 1) > n

\* output extent of Conv2d / AvgPool2d along one axis
ConvOut(n, k, s, p) == IF n + 2 * p < k THEN 0 - 1 ELSE ((n + 2 * p - k) \div s) + 1

\* shape of an elementwise operation of two tensors (right-aligned broadcast)
Broadcast(s, t) ==
    LET n == Max(Len(s), Len(t))
        ps == [i \in 1..n |-> IF i <= n - Len(s) THEN 1 ELSE s[i - (n - Len(s))]]
        pt == [i \in 1..n |-> IF i <= n - Len(t) THEN 1 ELSE t[i - (n - Len(t))]]
    IN  IF \A i \in 1..n : ps[i] = pt[i] \/ ps[i] = 1 \/ pt[i] = 1
        THEN [i \in 1..n |-> IF ps[i] = 1 THEN pt[i] ELSE ps[i]]
        ELSE Err

\* x.reshape(target) / x.view(target)
Reshape(s, target) == IF Numel(s) = Numel(target) THEN target ELSE Err

\* nn.LayerNorm(dim), nn.Linear(dim, out): act on the last axis
LastAxis(s, dim, out) ==
    IF s # <<>> /\ s[Len(s)] = dim THEN [s EXCEPT ![Len(s)] = out] ELSE Err

\* BatchNorm2d raises in training mode on one value per channel
BatchNormOk(tr, B, H, W) == ~tr \/ B * H * W > 1

\* variant of SpectralOutput that returns the spatial grid without the
\* reshape to tokens
SpectralOutputGrid(prod, a, b, x) == <<prod[1], a, b, prod[4]>>

\* lines 49-50: the spatial tensor after irfft2(s=(a, b)), put back as tokens
SpectralOutput(prod, a, b, x) == Reshape(<<prod[1], a, b, prod[4]>>, x)

\* SpectralGatingNetwork.forward, lines 38-51
SpectralGatingNetwork(x, h, w, dim) ==
    LET a == Isqrt(x[2])
        grid == Reshape(x, <<x[1], a, a, x[3]>>)
        freq == <<x[1], a, (a \div 2) + 1, x[3]>>
        prod == Broadcast(freq, <<h, w, dim>>)
    IN  IF grid = Err \/ a = 0 THEN Err
        ELSE IF prod = Err THEN Err
        ELSE IF prod[2] = 0 \/ prod[3] = 0 THEN Err
        ELSE SpectralOutput(prod, a, a, x)

\* Mlp.forward, lines 239-245
Mlp(x, dim) ==
    LET hdn == LastAxis(x, dim, 2 * dim)
    IN  IF hdn = Err THEN Err ELSE LastAxis(hdn, 2 * dim, dim)

\* Block.forward, lines 156-158
Block(x, h, w, dim) ==
    LET n1 == LastAxis(x, dim, dim)
        f == IF n1 = Err THEN Err ELSE SpectralGatingNetwork(n1, h, w, dim)
        n2 == IF f = Err THEN Err ELSE LastAxis(f, dim, dim)
        m == IF n2 = Err THEN Err ELSE Mlp(n2, dim)
    IN  IF m = Err THEN Err ELSE Broadcast(x, m)

\* AttentionModule.forward on [B,C,H,W], lines 54-117
AttentionModule(s, tr) ==
    LET B == s[1]
        C == s[2]
        H == s[3]
        W == s[4]
        channel_out == Broadcast(s, <<B, C, 1, 1>>)
        dw == <<B, C, ConvOut(H, 3, 1, 1), ConvOut(W, 3, 1, 1)>>
        att == <<B, 1, ConvOut(H, 3, 1, 1), ConvOut(W, 3, 1, 1)>>
        spatial_out == Broadcast(dw, att)
    IN  IF H < 1 \/ W < 1 THEN Err
        ELSE IF ~BatchNormOk(tr, B, H, W) THEN Err
        ELSE IF channel_out # spatial_out THEN Err
        ELSE <<B, C, H, W>>

\* FreqTimeBridge.forward, lines 132-143
FreqTimeBridge(x, h, w, dim, tr) ==
    LET B == x[1]
        N == x[2]
        C == x[3]
        H == Isqrt(N)
        x_norm == LastAxis(x, dim, dim)
        x_freq == IF x_norm = Err THEN Err ELSE SpectralGatingNetwork(x_norm, h, w, dim)
        x_2d == IF x_freq = Err THEN Err ELSE Reshape(x_freq, <<B, C, H, H>>)
        x_attn == IF x_2d = Err THEN Err ELSE AttentionModule(x_2d, tr)
        x_fused == IF x_attn = Err THEN Err
                   ELSE <<x_attn[1], x_attn[3] * x_attn[4], x_attn[2]>>
        proj == IF x_fused = Err THEN Err ELSE LastAxis(x_fused, dim, dim)
    IN  IF proj = Err THEN Err ELSE Broadcast(x, proj)

NumHeads == 6      \* line 169
SrRatio == 2       \* line 169

\* OSRAttention.forward on [B,C,H,W], lines 209-226
OSRAttention(s, tr) ==
    LET B == s[1]
        C == s[2]
        H == s[3]
        W == s[4]
        d == C \div NumHeads
        Hr == ConvOut(H, SrRatio, SrRatio, 0)
        Wr == ConvOut(W, SrRatio, SrRatio, 0)
        q == <<B, NumHeads, H * W, d>>
        k == <<B, NumHeads, d, Hr * Wr>>
        v == <<B, NumHeads, Hr * Wr, d>>
        attn == <<B, NumHeads, q[3], k[4]>>
        out == <<B, NumHeads, d, attn[3]>>
    IN  IF Numel(q) # Numel(s) THEN Err
        ELSE IF Hr < 1 \/ Wr < 1 THEN Err
        ELSE IF ~BatchNormOk(tr, B, Hr, Wr) THEN Err
        ELSE Reshape(out, <<B, C, H, W>>)

\* Block_attention.forward, lines 171-178
Block_attention(x, dim, tr) ==
    LET B == x[1]
        N == x[2]
        C == x[3]
        H == Isqrt(N)
        x_2d == Reshape(x, <<B, C, H, H>>)
        a == IF x_2d = Err THEN Err ELSE OSRAttention(x_2d, tr)
        attn_out == IF a = Err THEN Err
                    ELSE LET f == Reshape(a, <<B, C, N>>)
                         IN  IF f = Err THEN Err ELSE <<f[1], f[3], f[2]>>
        x1 == IF attn_out = Err THEN Err ELSE Broadcast(x, attn_out)
        n2 == IF x1 = Err THEN Err ELSE LastAxis(x1, dim, dim)
        m == IF n2 = Err THEN Err ELSE Mlp(n2, dim)
    IN  IF m = Err THEN Err ELSE Broadcast(x1, m)

\* PatchEmbed.forward, lines 268-275: the tokens of a [B,3,H,W] image
PatchEmbed(B, H, W, img_size, dim) ==
    LET h1 == ConvOut(H, 3, 2, 1)
        w1 == ConvOut(W, 3, 2, 1)
        h2 == IF h1 < 0 THEN 0 - 1 ELSE ConvOut(h1, 8, 8, 0)
        w2 == IF w1 < 0 THEN 0 - 1 ELSE ConvOut(w1, 8, 8, 0)
    IN  IF H # img_size \/ W # img_size THEN Err
        ELSE IF h2 < 0 \/ w2 < 0 THEN Err
        ELSE <<B, h2 * w2, dim>>

Rep(kind, n) == [i \in 1..n |-> kind]

\* variant of BryoFormerBlocks that appends the bridge after the attention run
BryoFormerBlocksBridgeLast(depth) ==
    Rep("Block", 4) \o Rep("Block_attention", IF depth > 5 THEN depth - 5 ELSE 0)
        \o <<"FreqTimeBridge">>

\* BryoFormer.__init__, lines 301-310
BryoFormerBlocks(depth) ==
    Rep("Block", 4) \o <<"FreqTimeBridge">>
        \o Rep("Block_attention", IF depth > 5 THEN depth - 5 ELSE 0)

\* lines 389-408, 444-463, 499-515
VariantBlocks(variant, depth) ==
    CASE variant = "BryoFormer" -> BryoFormerBlocks(depth)
      [] variant = "BryoFormerV2" ->
            Rep("Block", 3) \o <<"FreqTimeBridge">> \o Rep("Block_attention", 4)
      [] variant = "BryoFormerV3" ->
            Rep("Block", 2) \o Rep("FreqTimeBridge", 2) \o Rep("Block_attention", 8)
      [] variant = "BryoFormerV4" ->
            Rep("Block", 3) \o Rep("Block_attention", 9)

\* the largest index of dpr (a list of depth entries) a variant reads
MaxDprIndex(variant) ==
    CASE variant = "BryoFormer" -> 3
      [] variant = "BryoFormerV2" -> 7
      [] variant = "BryoFormerV3" -> 11
      [] variant = "BryoFormerV4" -> 11

\* variant of BlocksConstructible for an OSRAttention without the assert of
\* line 184
BlocksConstructibleNoAssert(blocks, dim) ==
    ("FreqTimeBridge" \in {blocks[i] : i \in DOMAIN blocks}) =>
        (dim \div 4 >= 1 /\ dim % (dim \div 4) = 0)

\* whether the constructor of a block list completes
BlocksConstructible(blocks, dim) ==
    /\ ("FreqTimeBridge" \in {blocks[i] : i \in DOMAIN blocks}) =>
            (dim \div 4 >= 1 /\ dim % (dim \div 4) = 0)          \* line 58
    /\ ("Block_attention" \in {blocks[i] : i \in DOMAIN blocks}) =>
            dim % NumHeads = 0                                     \* line 184

\* the constructors: every variant first builds the base BryoFormer
Constructible(variant, dim, depth) ==
    /\ dim \div 8 >= 1                                            \* line 259
    /\ depth > MaxDprIndex("BryoFormer")
    /\ BlocksConstructible(BryoFormerBlocks(depth), dim)
    /\ depth > MaxDprIndex(variant)
    /\ BlocksConstructible(VariantBlocks(variant, depth), dim)

\* construction of a model variant
BuildModel ==
    /\ net = NoNet
    /\ \E variant \in Variants, img \in ImgSizes, patch \in PatchSizes,
          dim \in EmbedDims, depth \in 1..MaxDepth :
        net' = IF Constructible(variant, dim, depth)
               THEN [built |-> "ok", variant |-> variant, img_size |-> img,
                     patch_size |-> patch, embed_dim |-> dim, depth |-> depth,
                     num_patches |-> (img \div patch) * (img \div patch),    \* line 253
                     h |-> img \div patch,                                    \* line 293
                     w |-> ((img \div patch) \div 2) + 1,                     \* line 294
                     blocks |-> VariantBlocks(variant, depth)]
               ELSE [built |-> "error", variant |-> variant, img_size |-> img,
                     patch_size |-> patch, embed_dim |-> dim, depth |-> depth,
                     num_patches |-> 0, h |-> 0, w |-> 0, blocks |-> <<>>]
    /\ UNCHANGED fwd
    /\ UNCHANGED pipeVars
    /\ UNCHANGED mainVars

\* forward_features up to the block loop, lines 340-343
StartForward ==
    /\ net.built = "ok"
    /\ fwd.pc \in {"idle", "done", "error"}
    /\ \E B \in 1..MaxBatch, H \in {net.img_size, DefaultImgSize}, tr \in BOOLEAN :
        LET tokens == PatchEmbed(B, H, H, net.img_size, net.embed_dim)
            x == IF tokens = Err THEN Err
                 ELSE Broadcast(tokens, <<1, net.num_patches, net.embed_dim>>)
        IN  fwd' = [pc |-> IF x = Err THEN "error" ELSE "blocks",
                    B |-> B, training |-> tr, tokens |-> tokens,
                    xin |-> x, x |-> x, i |-> 1, last |-> "none",
                    ops |-> <<>>]
    /\ UNCHANGED net
    /\ UNCHANGED pipeVars
    /\ UNCHANGED mainVars

\* variant of BlockOps for a Block_attention whose forward ends after the
\* attention residual
BlockOpsAttentionOnly(kind) ==
    CASE kind = "Block" ->
            <<"norm1", "filter", "norm2", "mlp", "drop_path", "residual">>
      [] kind = "FreqTimeBridge" ->
            <<"norm", "spectral", "attn_module", "proj", "alpha", "residual">>
      [] kind = "Block_attention" ->
            <<"attn", "drop_path", "residual">>

\* the sublayers a block's forward applies, in order (lines 157, 136-143,
\* 172-177); "residual" is the addition to the block's running x
BlockOps(kind) ==
    CASE kind = "Block" ->
            <<"norm1", "filter", "norm2", "mlp", "drop_path", "residual">>
      [] kind = "FreqTimeBridge" ->
            <<"norm", "spectral", "attn_module", "proj", "alpha", "residual">>
      [] kind = "Block_attention" ->
            <<"attn", "drop_path", "residual",
              "norm2", "mlp", "drop_path", "residual">>

ApplyBlock(kind, x, n, tr) ==
    CASE kind = "Block" -> Block(x, n.h, n.w, n.embed_dim)
      [] kind = "FreqTimeBridge" -> FreqTimeBridge(x, n.h, n.w, n.embed_dim, tr)
      [] kind = "Block_attention" -> Block_attention(x, n.embed_dim, tr)

\* one iteration of the loop of lines 345-346
BlockStep ==
    /\ fwd.pc = "blocks"
    /\ fwd.i <= Len(net.blocks)
    /\ LET kind == net.blocks[fwd.i]
           y == IF Len(fwd.x) # 3 THEN Err ELSE ApplyBlock(kind, fwd.x, net, fwd.training)
       IN  fwd' = [fwd EXCEPT !.pc = IF y = Err THEN "error" ELSE "blocks",
                              !.xin = fwd.x, !.x = y, !.i = fwd.i + 1,
                              !.last = kind,
                              !.ops = IF y = Err THEN <<>> ELSE BlockOps(kind)]
    /\ UNCHANGED net
    /\ UNCHANGED pipeVars
    /\ UNCHANGED mainVars

\* lines 348-355: norm, mean over the token axis, head
FinishForward ==
    /\ fwd.pc = "blocks"
    /\ fwd.i > Len(net.blocks)
    /\ LET n == LastAxis(fwd.x, net.embed_dim, net.embed_dim)
           pooled == IF n = Err \/ Len(n) < 2 THEN Err
                     ELSE [j \in 1..(Len(n) - 1) |-> IF j = 1 THEN n[1] ELSE n[j + 1]]
           logits == IF pooled = Err THEN Err
                     ELSE LastAxis(pooled, net.embed_dim, numClasses)
       IN  fwd' = [fwd EXCEPT !.pc = IF logits = Err THEN "error" ELSE "done",
                              !.xin = fwd.x, !.x = logits, !.last = "head",
                              !.ops = <<>>]
    /\ UNCHANGED net
    /\ UNCHANGED pipeVars
    /\ UNCHANGED mainVars

(***************************************************************************)
(* The port-retry loop of main_fixed.py (__main__ block)                   *)
(*                                                                         *)
(* uvicorn.run is the environment: a call returns when the server has      *)
(* shut down, or an exception leaves it.  The text of an exception is a    *)
(* sequence of tokens, and Python's substring test is a search for a       *)
(* contiguous run of tokens.                                               *)
(***************************************************************************)
\* main_fixed.py line 253
FirstPort == 8001
\* main_fixed.py line 254
max_attempts == 5

\* needle in text
Contains(text, needle) ==
    \E i \in 0..(Len(text) - Len(needle)) :
        \A j \in 1..Len(needle) : text[i + j] = needle[j]

\* what can leave uvicorn.run: the OSError asyncio raises for a port in use
\* (its text ends with the lower-cased strerror), the same on Windows
\* (error 10048), the OSError of a plain socket bind (strerror as the C
\* library spells it), an OSError for another reason, and SystemExit
Exceptions ==
    {[type |-> "OSError", errno |-> "EADDRINUSE",
      text |-> <<"[", "Errno", "98", "]", "bind", ":",
                 "address", "already", "in", "use">>],
     [type |-> "OSError", errno |-> "EADDRINUSE",
      text |-> <<"[", "Errno", "10048", "]", "bind", ":",
                 "only", "one", "usage">>],
     [type |-> "OSError", errno |-> "EADDRINUSE",
      text |-> <<"[", "Errno", "98", "]", "Address", "already", "in", "use">>],
     [type |-> "OSError", errno |-> "EACCES",
      text |-> <<"[", "Errno", "13", "]", "bind", ":", "permission", "denied">>],
     [type |-> "SystemExit", errno |-> "none", text |-> <<"1">>]}

\* variant of AddressInUseText that takes every text for a port in use
AddressInUseTextAlways(text) == TRUE

\* main_fixed.py line 265:
\* "address already in use" in str(e) or "10048" in str(e)
AddressInUseText(text) ==
    \/ Contains(text, <<"address", "already", "in", "use">>)
    \/ Contains(text, <<"10048">>)

\* the outcome logged for a call of uvicorn.run that returned
Returned == [type |-> "return", errno |-> "none", text |-> <<>>]

NotLaunched == [pc |-> "idle", port |-> 0, attempt |-> 0, log |-> <<>>,
                printed |-> FALSE]

\* main_fixed.py lines 253-257: the assignments and the first iteration of
\* the for loop, up to the call of uvicorn.run
main_start ==
    /\ launch.pc = "idle"
    /\ launch' = [launch EXCEPT !.pc = "running", !.port = FirstPort,
                                !.attempt = 0]
    /\ UNCHANGED pipeVars
    /\ UNCHANGED netVars

\* main_fixed.py lines 257-263: uvicorn.run returns and break leaves the
\* loop without its else clause
uvicorn_run_returns ==
    /\ launch.pc = "running"
    /\ launch' = [launch EXCEPT
         !.pc = "exited",
         !.log = Append(@, [port |-> launch.port, outcome |-> Returned])]
    /\ UNCHANGED pipeVars
    /\ UNCHANGED netVars

\* main_fixed.py lines 264-272: an exception leaves uvicorn.run; for an
\* OSError whose text names a port in use the port moves on and the loop
\* goes to its next iteration, or to its else clause after the last one;
\* every other exception leaves the program
uvicorn_run_raises(e) ==
    /\ launch.pc = "running"
    /\ LET logged == Append(launch.log, [port |-> launch.port, outcome |-> e])
       IN  IF e.type = "OSError" /\ AddressInUseText(e.text)
           THEN launch' = [launch EXCEPT
                    !.port = @ + 1,
                    !.attempt = @ + 1,
                    !.log = logged,
                    !.pc = IF launch.attempt + 1 < max_attempts
                           THEN "running" ELSE "exhausted",
                    !.printed = ~(launch.attempt + 1 < max_attempts)]
           ELSE launch' = [launch EXCEPT !.pc = "raised", !.log = logged]
    /\ UNCHANGED pipeVars
    /\ UNCHANGED netVars

InitService ==
    /\ started = FALSE
    /\ plant_model = None
    /\ initRaised = FALSE
    /\ params = [n \in LiveParams |-> "random"]
    /\ training = TRUE
    /\ new_state_dict = None
    /\ loadTrace = <<>>
    /\ loadOutcome = "unloaded"
    /\ class_names = {}
    /\ lastCall = None
    /\ prev = None
    /\ buffers = "loaded"
    /\ result = None
    /\ health = None
    /\ clock = 0
    /\ uploads = [p \in Paths |-> None]
    /\ reqs = [r \in Requests |-> NewRequest]
    /\ net = NoNet
    /\ fwd = NoFwd
    /\ launch = NotLaunched

\* requests of every kind against the scenario checkpoints
Init ==
    /\ service = "main"
    /\ ckptFile \in ScenarioCheckpoints
    /\ classFile \in ClassFiles
    /\ numClasses \in 1..MaxClasses
    /\ InitService

\* every checkpoint condition, with the service's default configuration
InitLoad ==
    /\ service = "main"
    /\ ckptFile \in CheckpointFiles
    /\ classFile = [exists |-> FALSE, valid |-> FALSE, ids |-> {}]
    /\ numClasses = MaxClasses
    /\ InitService

\* one checkpoint for each way load_model can end: no path, file missing,
\* unreadable, not a mapping, state dict not a mapping, full match and half
\* match with right shapes or a wrong shape for 'head'
PathCheckpoints ==
    {f \in ScenarioCheckpoints :
        f.sdMapping => /\ f.entries = {}
                       /\ f.keys \in {{<<"head">>, <<"norm">>},
                                       {<<"head">>, <<"extra">>}}}

\* sequences of predict calls after each way of loading and with each class
\* table; load_model does not read the class file nor load_class_names the
\* checkpoint, so one of the two is varied at a time
InitPredict ==
    /\ service = "main"
    /\ ckptFile \in PathCheckpoints
    /\ classFile \in ClassFiles
    /\ \/ ckptFile.path = "missing"
       \/ ~classFile.exists
    /\ numClasses \in 1..MaxClasses
    /\ InitService

\* the weight files a served model starts from: missing, or a full match
ServeCheckpoints ==
    {f \in PathCheckpoints :
        \/ f.path = "missing"
        \/ f.sdMapping /\ f.keys = {<<"head">>, <<"norm">>} /\ f.badShape = {}}
\* the class tables a served model starts from: the default table, and a
\* file that lists no class
ServeClassFiles ==
    {cf \in ClassFiles : ~cf.exists \/ (cf.valid /\ cf.ids = {})}

\* main.py with its default class table, requests arriving at any time,
\* before startup too
InitReady ==
    /\ service = "main"
    /\ ckptFile \in ServeCheckpoints
    /\ classFile = [exists |-> FALSE, valid |-> FALSE, ids |-> {}]
    /\ numClasses = MaxClasses
    /\ InitService

\* main.py with a checkpoint that loads, under the default class table and
\* under a table that lists no class
InitRecognize ==
    /\ service = "main"
    /\ ckptFile \in {f \in ServeCheckpoints : f.path = "exists"}
    /\ classFile \in ServeClassFiles
    /\ numClasses = MaxClasses
    /\ InitService

\* any application, requests arriving at any time
InitServe ==
    /\ service \in Services
    /\ ckptFile \in ServeCheckpoints
    /\ classFile \in ServeClassFiles
    /\ numClasses = MaxClasses
    /\ InitService

\* the network alone: no service is started
InitNet ==
    /\ service = "main"
    /\ ckptFile = NoFile
    /\ classFile = [exists |-> FALSE, valid |-> FALSE, ids |-> {}]
    /\ numClasses = MaxClasses
    /\ InitService

\* main_fixed.py run as a program: nothing is served before uvicorn.run
InitLaunch ==
    /\ service = "main_fixed"
    /\ ckptFile = NoFile
    /\ classFile = [exists |-> FALSE, valid |-> FALSE, ids |-> {}]
    /\ numClasses = MaxClasses
    /\ InitService

NextLaunch ==
    \/ main_start
    \/ uvicorn_run_returns
    \/ \E e \in Exceptions : uvicorn_run_raises(e)

Next == startup_event \/ Predict \/ health_check
NextLoad == startup_event \/ health_check
NextPredict == startup_event \/ Predict
NextReady ==
    \/ startup_event
    \/ Tick
    \/ \E r \in Requests : identify_plant_enter(r)
    \/ \E r \in Requests : save_open(r)
    \/ \E r \in Requests : save_write(r)
    \/ \E r \in Requests : identify_plant_recognize(r)
NextServe ==
    \/ service = "main" /\ startup_event
    \/ lifespan
    \/ Tick
    \/ \E r \in Requests : identify_plant_enter(r)
    \/ \E r \in Requests : fixed_identify_plant_enter(r)
    \/ \E r \in Requests : save_open(r)
    \/ \E r \in Requests : save_write(r)
    \/ \E r \in Requests : identify_plant_recognize(r)
    \/ \E r \in Requests : fixed_identify_plant_recognize(r)
    \/ \E r \in Requests : fixed_identify_plant_demo(r)
    \/ v2_startup_event
    \/ v2_health_check
    \/ \E r \in Requests : v2_identify_plant_enter(r)
    \/ \E r \in Requests : v2_demo_identify_plant(r)
NextNet == BuildModel \/ StartForward \/ BlockStep \/ FinishForward

Spec == Init /\ [][Next]_vars
SpecLoad == InitLoad /\ [][NextLoad]_vars
SpecPredict == InitPredict /\ [][NextPredict]_vars
SpecReady == InitReady /\ [][NextReady]_vars
SpecRecognize == InitRecognize /\ [][NextReady]_vars
SpecLaunch == InitLaunch /\ [][NextLaunch]_vars
SpecServe == InitServe /\ [][NextServe]_vars
SpecNet == InitNet /\ [][NextNet]_vars

(***************************************************************************)
(* Properties                                                              *)
(***************************************************************************)
ValidCall == lastCall # None /\ lastCall.image.valid

\* C1: for every top_k >= 1 and every num_classes, predict on a valid image
\* returns a predictions list of length exactly min(top_k, num_classes).
C1_TopKLength ==
    ValidCall => Len(result.predictions) = Min(lastCall.top_k, numClasses)

\* C2: predict with top_k greater than num_classes does not end in an error
\* result: it returns success with exactly num_classes predictions.
C2_TopKAboveClasses ==
    (ValidCall /\ lastCall.top_k > numClasses) =>
        (result.success /\ Len(result.predictions) = numClasses)

\* C3: checkpoint key normalization is idempotent: normalizing the key set
\* that load_model has normalized yields the same key set.
C3_NormalizeIdempotent ==
    (started /\ new_state_dict # None) =>
        NormalizeKeys(new_state_dict.keys) = new_state_dict.keys

\* the ordered load sequence: strict first, partial only after a mismatch of
\* the strict load, fallback only without a checkpoint or after two failures
LoadSequenceOrdered ==
    started =>
        /\ Len(loadTrace) >= 1 => loadTrace[1].strict
        /\ Len(loadTrace) >= 2 => (loadTrace[1].raised /\ ~loadTrace[2].strict)
        /\ Len(loadTrace) <= 2
        /\ loadOutcome \in {"fallback", "notfound"} =>
              (ckptFile.path # "exists" \/ \A i \in DOMAIN loadTrace : loadTrace[i].raised)

\* C4: weight loading attempts a strict load first, a partial load only after
\* the strict load reports a mismatch, and falls back only when there is no
\* checkpoint or both attempts fail; the load state is set once and no later
\* predict call changes it.
C4_LoadSequence ==
    /\ []LoadSequenceOrdered
    /\ [][started => (loadOutcome' = loadOutcome /\ loadTrace' = loadTrace
                        /\ params' = params)]_vars

\* keys by which a response says whether trained weights produced it
IndicatorKeys == {"demo_mode", "ai_mode", "model_loaded"}

\* C5: every result of an inference call carries an indicator of trained
\* versus random-fallback weights, and when the checkpoint is missing or
\* loading fails the readiness flag reports that the weights are not trained.
C5_ResultIndicator ==
    /\ result # None => DOMAIN result \cap IndicatorKeys # {}
    /\ (health # None /\ loadOutcome \in {"fallback", "notfound"}) =>
            ~health.model_loaded

\* C6: for every checkpoint condition load_model returns a model and no
\* exception raised while reading or loading the checkpoint reaches the caller.
C6_LoadNeverAborts ==
    started =>
        /\ ~initRaised
        /\ plant_model # None
        /\ ~training
        /\ loadOutcome \in {"loaded", "fallback", "notfound"}

\* C6 witness: a checkpoint whose tensors have the wrong shape failed both
\* load attempts and the model was still returned
C6_Witness ==
    /\ started
    /\ plant_model # None
    /\ Len(loadTrace) = 2
    /\ loadTrace[1].raised /\ loadTrace[2].raised
    /\ loadOutcome = "fallback"

\* a state dict in which some live parameter names match and some do not
HalfMatch(f) ==
    /\ f.path = "exists" /\ f.content = "mapping" /\ f.sdMapping
    /\ \E n \in LiveParams : <<n>> \in NormalizeKeys(f.keys)
    /\ \E n \in LiveParams : <<n>> \notin NormalizeKeys(f.keys)

\* a success result whose records are in the table, ranked by confidence,
\* with top_prediction the first record or None
WellFormed(res) ==
    /\ res.success
    /\ \A i \in DOMAIN res.predictions : res.predictions[i].class_id \in class_names
    /\ \A i, j \in DOMAIN res.predictions :
            i < j => res.predictions[i].confidence > res.predictions[j].confidence
    /\ res.top_prediction =
            (IF res.predictions # <<>> THEN res.predictions[1] ELSE None)

\* C7: loading a checkpoint with half of the names matching completes without
\* raising, leaves every unmatched parameter at its random value, and a later
\* predict on a valid image returns a well-formed success result.
C7_PartialLoad ==
    (started /\ HalfMatch(ckptFile)) =>
        /\ ~initRaised /\ plant_model # None
        /\ \A n \in LiveParams :
              <<n>> \notin NormalizeKeys(ckptFile.keys) => params[n] = "random"
        /\ ValidCall => WellFormed(result)

\* C8: for every (img_size, patch_size) the number of tokens PatchEmbed.forward
\* produces equals (img_size/patch_size)^2 = num_patches = length of pos_embed.
C8_PatchCount ==
    (fwd.pc # "idle" /\ fwd.tokens # Err) =>
        /\ fwd.tokens[2] = (net.img_size \div net.patch_size) * (net.img_size \div net.patch_size)
        /\ fwd.tokens[2] = net.num_patches

BlockKinds == {"Block", "FreqTimeBridge", "Block_attention"}

ThreePhase(blocks) ==
    \A i, j \in DOMAIN blocks :
        i < j => /\ ~(blocks[j] = "Block" /\ blocks[i] # "Block")
                 /\ ~(blocks[j] = "FreqTimeBridge" /\ blocks[i] = "Block_attention")

\* C10: in every variant the block list is a run of spectral Blocks, then the
\* bridge phase, then a run of attention blocks; in the base BryoFormer the
\* bridge phase is exactly one FreqTimeBridge.
C10_ThreePhaseStack ==
    net.built = "ok" =>
        /\ ThreePhase(net.blocks)
        /\ \A i \in DOMAIN net.blocks : net.blocks[i] \in BlockKinds
        /\ net.variant = "BryoFormer" =>
              Cardinality({i \in DOMAIN net.blocks : net.blocks[i] = "FreqTimeBridge"}) = 1

\* C10 witness: a base model with all three phases non-empty
C10_Witness ==
    /\ net.built = "ok"
    /\ net.variant = "BryoFormer"
    /\ net.blocks[4] = "Block" /\ net.blocks[5] = "FreqTimeBridge"
    /\ Len(net.blocks) >= 8 /\ net.blocks[8] = "Block_attention"

\* C11: two back-to-back predict calls on the same model with the same image
\* and top_k return identical results, and no step of a started service
\* changes the parameters, the buffers or the mode of the model.
C11_Determinism ==
    /\ []((prev # None /\ prev.same) => result = prev.result)
    /\ [][started => (/\ params' = params
                      /\ buffers' = buffers
                      /\ training' = training)]_vars
C11_Witness ==
    /\ prev # None
    /\ prev.same
    /\ result.success
    /\ result.predictions # <<>>

\* C12: a predict call that returns an error result leaves the model and the
\* class-name table unchanged, and a predict call on a valid image right
\* after a failed call returns what it returns on the service as constructed.
C12_FailureIsLocal ==
    /\ []((prev # None /\ prev.failed /\ ValidCall) =>
            result = predict(lastCall.image, lastCall.top_k, numClasses,
                             load_class_names(classFile)))
    /\ [][(result' # None /\ ~result'.success) =>
            UNCHANGED <<plant_model, params, training, buffers, class_names>>]_vars
C12_Witness ==
    /\ prev # None
    /\ prev.failed
    /\ ValidCall
    /\ result.success

\* C13: when top-k selection succeeds, the call succeeds and its records are
\* the selected indices that are in the class-name table, in ranking order,
\* the others being omitted; every record of a successful call has a
\* class_id in the table.
C13_AbsentKeyOmitted ==
    /\ (result # None /\ result.success) =>
          \A i \in 1..Len(result.predictions) :
              result.predictions[i].class_id \in class_names
    /\ (ValidCall /\ lastCall.top_k <= numClasses) =>
          /\ result.success
          /\ [i \in 1..Len(result.predictions) |-> result.predictions[i].class_id]
               = SelectSeq(SubSeq(lastCall.image.ranking, 1, lastCall.top_k),
                           LAMBDA c : c \in class_names)
C13_Witness ==
    /\ ValidCall
    /\ result.success
    /\ result.predictions # <<>>
    /\ Len(result.predictions) < lastCall.top_k

\* C15: the state dict is the checkpoint's 'model_state_dict' if present,
\* else its 'state_dict', else its 'model', else the checkpoint itself, and
\* no key passed to load_state_dict still starts with 'module.' or 'model.'.
C15_StateDictSelection ==
    (started /\ new_state_dict # None) =>
        /\ new_state_dict.entry =
              (CASE "model_state_dict" \in ckptFile.entries -> "model_state_dict"
                 [] "model_state_dict" \notin ckptFile.entries
                    /\ "state_dict" \in ckptFile.entries -> "state_dict"
                 [] {"model_state_dict", "state_dict"} \cap ckptFile.entries = {}
                    /\ "model" \in ckptFile.entries -> "model"
                 [] OTHER -> "checkpoint")
        /\ loadTrace # <<>> =>
              \A k \in new_state_dict.keys :
                  ~(Len(k) >= 2 /\ k[1] \in WrapperPrefixes)

\* C16: whichever way weight loading ended (loaded, fallen back to random
\* weights, file missing), the constructed model is in evaluation mode, every
\* forward pass of predict runs in that mode, and in it the stochastic-depth
\* gate of a block is the identity at every rate.
C16_EvalModeForward ==
    /\ (started /\ plant_model # None) =>
          (loadOutcome \in {"loaded", "fallback", "notfound"} /\ ~training)
    /\ ValidCall =>
          /\ ~lastCall.training
          /\ \A rate \in DropPathRates :
                DropPathGate(rate, lastCall.training) = "identity"
C16_Witness ==
    /\ ValidCall
    /\ loadOutcome = "fallback"
    /\ result.success

\* C17: whenever a spectral filter (in a Block or a FreqTimeBridge) is fed
\* N tokens, its weight grid (h, w) is (img_size / patch_size, h // 2 + 1)
\* and equals the rfft2 output grid (a, a // 2 + 1) with a = floor(sqrt(N)).
C17_SpectralGrid ==
    (/\ net.built = "ok"
     /\ fwd.pc # "idle"
     /\ fwd.last \in {"Block", "FreqTimeBridge"}
     /\ fwd.xin # Err
     /\ Len(fwd.xin) = 3) =>
        LET a == Isqrt(fwd.xin[2])
        IN  /\ net.h = net.img_size \div net.patch_size
            /\ net.w = (net.h \div 2) + 1
            /\ <<a, (a \div 2) + 1>> = <<net.h, net.w>>

\* C18: constructing a model that has a Block_attention with an embedding
\* width not divisible by the 6 heads fails, and no forward pass ever runs a
\* Block_attention on such a width.
C18_HeadsDivideWidth ==
    /\ (/\ net.built # "no"
        /\ net.embed_dim % NumHeads # 0
        /\ \E i \in DOMAIN VariantBlocks(net.variant, net.depth) :
              VariantBlocks(net.variant, net.depth)[i] = "Block_attention") =>
          net.built = "error"
    /\ (fwd.pc # "idle" /\ fwd.last = "Block_attention") =>
          net.embed_dim % NumHeads = 0
C18_Witness ==
    /\ net.built = "error"
    /\ net.embed_dim = 8
    /\ net.depth > MaxDprIndex(net.variant)
    /\ \E i \in DOMAIN VariantBlocks(net.variant, net.depth) :
          VariantBlocks(net.variant, net.depth)[i] = "Block_attention"

\* the sublayers that mix tokens: the spectral filter of a Block, the
\* spectral filter and attention module of the bridge, the attention of a
\* Block_attention
MixingOps == {"filter", "spectral", "attn_module", "attn"}
\* an Mlp comes after a mixing sublayer and its output is added to x
MlpAfterMixing(ops) ==
    \E i, j, k \in DOMAIN ops :
        /\ i < j
        /\ j < k
        /\ ops[i] \in MixingOps
        /\ ops[j] = "mlp"
        /\ ops[k] = "residual"
BlockApplied == fwd.pc # "idle" /\ fwd.last \in BlockKinds /\ fwd.ops # <<>>

\* C19: every block a forward pass applies (spectral Block, FreqTimeBridge,
\* Block_attention) applies an Mlp after its mixing operator, with a
\* residual.
C19_MlpAfterEveryMixing ==
    BlockApplied => MlpAfterMixing(fwd.ops)

\* C19 (amended): a spectral Block and a Block_attention apply an Mlp after
\* their mixing operator, with a residual; a FreqTimeBridge applies no Mlp:
\* its mixing is followed by the linear projection, the sigmoid-scaled alpha
\* and the residual.
C19_MlpAfterFilterAndAttention ==
    BlockApplied =>
        IF fwd.last = "FreqTimeBridge"
        THEN /\ \A i \in DOMAIN fwd.ops : fwd.ops[i] # "mlp"
             /\ \E i, j, k, l \in DOMAIN fwd.ops :
                  /\ i < j /\ j < k /\ k < l
                  /\ fwd.ops[i] \in MixingOps
                  /\ fwd.ops[j] = "proj"
                  /\ fwd.ops[k] = "alpha"
                  /\ fwd.ops[l] = "residual"
        ELSE MlpAfterMixing(fwd.ops)
C19_Witness ==
    /\ BlockApplied
    /\ fwd.last = "FreqTimeBridge"
    /\ fwd.x = fwd.xin

\* C14: until startup has finished the global plant_model is None; a request
\* to main.py's identify_plant that finds it None is answered 503 at once,
\* without a temporary file and without a predict call; and every predict
\* call, from a request or not, runs on a model whose load_model has
\* returned.
C14_NoInferenceBeforeLoad ==
    /\ ~started => plant_model = None
    /\ lastCall # None =>
          (started /\ loadOutcome \in {"loaded", "fallback", "notfound"})
    /\ \A r \in Requests :
          /\ reqs[r].sawNone =>
                /\ reqs[r].pc = "done"
                /\ reqs[r].response = HTTPError(503)
                /\ reqs[r].path = None
                /\ ~reqs[r].predicted
          /\ reqs[r].predicted =>
                (started /\ plant_model # None /\ ~reqs[r].sawNone)
C14_Witness ==
    \E r, q \in Requests :
        /\ reqs[r].sawNone
        /\ reqs[r].response = HTTPError(503)
        /\ reqs[q].predicted
        /\ reqs[q].response.status = 200

\* C20: in main_fixed.py, a request whose recognition with the loaded model
\* failed inside identify_plant is answered with the demo result: status
\* 200, success true, demo_mode true.
C20_FallbackToDemo ==
    \A r \in Requests :
        (service = "main_fixed" /\ reqs[r].fellBack /\ reqs[r].pc = "done") =>
            reqs[r].response = [status |-> 200, success |-> TRUE, demo_mode |-> TRUE]

\* C21: in main_fixed_v2.py, once the model has been constructed from an
\* existing checkpoint whose weights loaded, health_check reports
\* model_loaded true and every image request that arrives afterwards is
\* answered from predict, not with the demo result.
C21_RealModelPath ==
    (service = "main_fixed_v2" /\ started /\ plant_model # None
        /\ loadOutcome = "loaded") =>
        /\ health # None => health.model_loaded
        /\ \A r \in Requests :
              (reqs[r].pc = "done" /\ ~reqs[r].sawNone /\ reqs[r].upload.isImage) =>
                  /\ reqs[r].predicted
                  /\ reqs[r].response # [status |-> 200, success |-> TRUE,
                                          demo_mode |-> TRUE]

\* C22: every successful predict result has as top_prediction the first
\* element of predictions, or None when predictions is empty; and when main.py's
\* identify_plant gets a successful result with no prediction it answers
\* success false, without reading a field of top_prediction.
C22_TopPredictionGuarded ==
    [][\A r \in Requests :
          (reqs[r].pc = "written" /\ reqs'[r].pc = "done" /\ reqs'[r].predicted
              /\ result'.success) =>
              /\ result'.top_prediction =
                    (IF result'.predictions = <<>> THEN None
                     ELSE result'.predictions[1])
              /\ result'.predictions = <<>> =>
                    reqs'[r].response = [status |-> 200, success |-> FALSE,
                                         error |-> "unknown error"]]_vars
\* a request was answered success false after a successful predict that
\* found none of its classes in the table
C22_Witness ==
    \E r \in Requests :
        /\ reqs[r].pc = "done" /\ reqs[r].predicted
        /\ result # None /\ result.success
        /\ result.predictions = <<>> /\ result.top_prediction = None
        /\ reqs[r].response = [status |-> 200, success |-> FALSE,
                               error |-> "unknown error"]

\* C23: a request that created a temporary upload file ends with no file at
\* its path, whichever way it ends, and deletes a file at most once.
C23_TempFileRemovedOnce ==
    \A r \in Requests :
        (reqs[r].pc = "done" /\ reqs[r].path # None) =>
            /\ reqs[r].removed <= 1
            /\ (\A q \in Requests : q # r =>
                    (reqs[q].pc \in {"new", "done"} \/ reqs[q].path = None
                        \/ reqs[q].path # reqs[r].path))
                => uploads[reqs[r].path] = None

\* C24: concurrent requests are isolated: whatever the interleaving, the
\* image predict reads for a request is the content that request uploaded,
\* and no request that reached predict is answered with a server error.
C24_RequestsIsolated ==
    \A r \in Requests :
        (reqs[r].pc = "done" /\ reqs[r].predicted) =>
            /\ reqs[r].read = reqs[r].upload.image
            /\ reqs[r].response.status # 500

InUseOSError(outcome) ==
    /\ outcome.type = "OSError"
    /\ outcome.errno = "EADDRINUSE"
OtherOSError(outcome) ==
    /\ outcome.type = "OSError"
    /\ outcome.errno # "EADDRINUSE"

\* C25: the port-retry loop makes at most max_attempts calls of uvicorn.run;
\* the i-th call (from 0) uses port 8001 + i; the port moves on only after an
\* OSError for a port in use; any other OSError leaves the program at once;
\* the loop ends with the first call that returns; and the message that no
\* port was found is printed only after max_attempts calls that all failed
\* on a port in use.
C25_PortRetryLoop ==
    LET n == Len(launch.log)
    IN  /\ n <= max_attempts
        /\ \A i \in 1..n : launch.log[i].port = FirstPort + (i - 1)
        /\ launch.pc = "running" => launch.port = FirstPort + n
        /\ \A i \in 1..n :
              /\ (i < n \/ launch.port > launch.log[i].port) =>
                     InUseOSError(launch.log[i].outcome)
              /\ OtherOSError(launch.log[i].outcome) =>
                     (i = n /\ launch.pc = "raised")
              /\ launch.log[i].outcome.type = "return" =>
                     (i = n /\ launch.pc = "exited")
        /\ launch.printed =>
              /\ n = max_attempts
              /\ \A i \in 1..n : InUseOSError(launch.log[i].outcome)
\* five calls failed on a port in use, the last one on port 8005, and the
\* message was printed
C25_Witness ==
    /\ launch.pc = "exhausted"
    /\ launch.printed
    /\ Len(launch.log) = max_attempts
    /\ launch.log[max_attempts].port = FirstPort + max_attempts - 1
====
